---------------------------- MODULE Spec2Model ----------------------------
(***************************************************************************)
(* Model of the prompt template engine (createPrompt, generateDiagnostic-  *)
(* Text, createAdvancedPrompt, addMCPContext, createMCPEnhancedPrompt,     *)
(* supportPrompt.get / create), of the POST /api/generate handler that    *)
(* calls it, of checkAndConsumeTokens under concurrent calls, and of the   *)
(* browser side: onAskOpenAI and the useStreamingApi hook.                 *)
(*                                                                         *)
(* Strings are sequences of lexical units.  A unit is one character that   *)
(* matters to the code ("$", "{", "}", "\n", ".", " ") or an indivisible   *)
(* run of other characters ("a", "userInput", "diagnosticText", a fixed    *)
(* block of template prose).  No unit of a run contains "$", "{", "}" or a *)
(* line terminator, so the token pattern /\$\{(.*?)\}/g sees exactly what  *)
(* it sees on the characters.                                              *)
(***************************************************************************)
EXTENDS Naturals, Sequences, FiniteSets, TLC

VARIABLES
    op,          \* the entry point of the call in progress
    pc,          \* position of the call: "ready", "done", or a handler label
    template,    \* argument of createPrompt
    params,      \* the parameter mapping: a function from keys to values
    kind,        \* the requested prompt kind
    custom,      \* customSupportPrompts: None or Some(mapping kind -> template)
    mcp,         \* the MCPContext payload: None or Some(record)
    options,     \* the merged options of createAdvancedPrompt
    calls,       \* the replacer callback invocations made so far, in order
    warnings,    \* console.warn emissions of createAdvancedPrompt
    result,      \* None, or Some([threw, s]): what the call returned
    again,       \* None, or Some([threw, s]): what createAdvancedPrompt
                 \* returned when called on its own output
    req,         \* the HTTP request of POST /api/generate and its environment
    locals,      \* the handler's local variables (authed, userId, index ...)
    usage,       \* the quota collection: bucket -> tokens used today
    response,    \* the HTTP response: None or Some([status, ...])
    openaiCalls, \* number of chat.completions.create calls issued
    events,      \* events enqueued on the streaming response
    usage0,      \* the quota collection as it was when the calls arrived
    quotaCalls,  \* the concurrent checkAndConsumeTokens calls, by caller
    client       \* the browser: PromptPlayground and its useStreamingApi hook

vars == <<op, pc, template, params, kind, custom, mcp, options, calls,
          warnings, result, again, req, locals, usage, response, openaiCalls,
          events, usage0, quotaCalls, client>>

inputVars == <<template, params, kind, custom, mcp, options>>
routeVars == <<req, locals, usage, response, openaiCalls, events>>
otherVars == <<usage0, quotaCalls, client>>

-----------------------------------------------------------------------------
(* Optional values (undefined / present) *)

None == <<>>
Some(v) == <<v>>
IsSome(o) == o # <<>>
Get(o) == o[1]

(* Values of JavaScript that the engine meets *)

StrV(s) == [t |-> "str", s |-> s]
NumV(n) == [t |-> "num", n |-> n]
ArrV(a) == [t |-> "arr", a |-> a]
ObjV(source, message, code) ==
    [t |-> "obj", source |-> source, message |-> message, code |-> code]
NullV == [t |-> "null"]

(* The outcome of a call: a returned string, or a thrown TypeError *)
Ok(s) == [threw |-> FALSE, s |-> s]
Threw == [threw |-> TRUE, s |-> <<>>]

DOLLAR == "$"
LBRACE == "{"
RBRACE == "}"
NL == "\n"

Tok(key) == <<DOLLAR, LBRACE>> \o key \o <<RBRACE>>

DIAGTEXT == <<"diagnosticText">>
DIAGNOSTICS == <<"diagnostics">>

RECURSIVE Flatten(_)
Flatten(ss) == IF ss = <<>> THEN <<>> ELSE Head(ss) \o Flatten(Tail(ss))

RECURSIVE JoinStr(_, _)
JoinStr(ss, sep) ==
    IF ss = <<>> THEN <<>>
    ELSE IF Len(ss) = 1 THEN ss[1]
    ELSE ss[1] \o sep \o JoinStr(Tail(ss), sep)

(* s occurs in t as a contiguous run: String.prototype.includes *)
Includes(t, s) ==
    \E i \in 1..(Len(t) - Len(s) + 1) : SubSeq(t, i, i + Len(s) - 1) = s

-----------------------------------------------------------------------------
(* JavaScript conversions used by the template literals *)

\* truthiness of an optional field: undefined, "" and 0 are falsy
Truthy(f) ==
    /\ IsSome(f)
    /\ CASE Get(f).t = "str" -> Get(f).s # <<>>
         [] Get(f).t = "num" -> Get(f).n # 0
         [] OTHER -> TRUE

\* String(v) / `${v}` of a present value
ToStr(v) ==
    CASE v.t = "str" -> v.s
      [] v.t = "num" -> <<ToString(v.n)>>
      [] v.t = "obj" -> <<"[object Object]">>
      [] v.t = "null" -> <<"null">>
      [] OTHER -> <<>>

\* `${f}` of an optional field: undefined prints as "undefined"
Interp(f) == IF IsSome(f) THEN ToStr(Get(f)) ELSE <<"undefined">>

\* the element conversion of Array.prototype.join: null and undefined are ""
JoinElem(e) == IF e.t = "null" THEN <<>> ELSE ToStr(e)

ArrayJoin(a, sep) == JoinStr([i \in 1..Len(a) |-> JoinElem(a[i])], sep)

\* property read d.f on an array element d
Field(d, f) ==
    IF d.t = "obj" THEN
        CASE f = "source" -> d.source
          [] f = "message" -> d.message
          [] OTHER -> d.code
    ELSE None

-----------------------------------------------------------------------------
(* generateDiagnosticText and createPrompt *)

\* one line of the diagnostics listing
DiagLine(d) ==
    <<"- [">>
    \o (IF Truthy(Field(d, "source")) THEN ToStr(Get(Field(d, "source")))
        ELSE <<"Error">>)
    \o <<"] ">>
    \o Interp(Field(d, "message"))
    \o (IF Truthy(Field(d, "code"))
        THEN <<" (">> \o ToStr(Get(Field(d, "code"))) \o <<")">>
        ELSE <<>>)

\* diagnostics is params["diagnostics"]: None when the key is absent.
\* A non-empty string has a length and no map method; a null element has no
\* properties: both throw a TypeError.
generateDiagnosticText(diagnostics) ==
    IF ~IsSome(diagnostics) THEN Ok(<<>>)
    ELSE LET v == Get(diagnostics) IN
         CASE v.t = "str" -> IF v.s = <<>> THEN Ok(<<>>) ELSE Threw
           [] v.t = "arr" ->
                IF v.a = <<>> THEN Ok(<<>>)
                ELSE IF \E i \in 1..Len(v.a) : v.a[i].t = "null" THEN Threw
                ELSE Ok(<<NL, "Current problems detected:", NL>>
                        \o JoinStr([i \in 1..Len(v.a) |-> DiagLine(v.a[i])],
                                   <<NL>>))
           [] OTHER -> Ok(<<>>)

\* Replacer with a missing key left as its literal token
Replacer_KeepMissing(key, p) ==
    IF key = DIAGTEXT THEN
        generateDiagnosticText(IF DIAGNOSTICS \in DOMAIN p
                               THEN Some(p[DIAGNOSTICS]) ELSE None)
    ELSE IF key \in DOMAIN p THEN
        LET value == p[key] IN
        CASE value.t = "str" -> Ok(value.s)
          [] value.t = "arr" -> Ok(ArrayJoin(value.a, <<NL>>))
          [] OTHER -> Ok(ToStr(value))
    ELSE Ok(Tok(key))

\* Replacer with arrays joined by Array.prototype.join's default separator
Replacer_JoinComma(key, p) ==
    IF key = DIAGTEXT THEN
        generateDiagnosticText(IF DIAGNOSTICS \in DOMAIN p
                               THEN Some(p[DIAGNOSTICS]) ELSE None)
    ELSE IF key \in DOMAIN p THEN
        LET value == p[key] IN
        CASE value.t = "str" -> Ok(value.s)
          [] value.t = "arr" -> Ok(ArrayJoin(value.a, <<",">>))
          [] OTHER -> Ok(ToStr(value))
    ELSE Ok(<<>>)

\* the replacer callback of template.replace: what one matched token becomes
Replacer(key, p) ==
    IF key = DIAGTEXT THEN
        generateDiagnosticText(IF DIAGNOSTICS \in DOMAIN p
                               THEN Some(p[DIAGNOSTICS]) ELSE None)
    ELSE IF key \in DOMAIN p THEN
        LET value == p[key] IN
        CASE value.t = "str" -> Ok(value.s)
          [] value.t = "arr" -> Ok(ArrayJoin(value.a, <<NL>>))
          [] OTHER -> Ok(ToStr(value))
    ELSE Ok(<<>>)

\* /\$\{(.*?)\}/ anchored at position i of t: the index of the closing "}" of
\* the match, or 0 when there is none.  The lazy group stops at the first "}";
\* "." matches no line terminator.
MatchEnd(t, i) ==
    IF i + 2 > Len(t) \/ t[i] # DOLLAR \/ t[i + 1] # LBRACE THEN 0
    ELSE LET closes == {j \in (i + 2)..Len(t) : t[j] = RBRACE} IN
         IF closes = {} THEN 0
         ELSE LET j == CHOOSE c \in closes : \A d \in closes : c <= d IN
              IF \E m \in (i + 2)..(j - 1) : t[m] = NL THEN 0 ELSE j

\* the first position from i on at which the pattern matches, 0 if none
NextMatch(t, i) ==
    LET starts == {k \in i..Len(t) : MatchEnd(t, k) # 0} IN
    IF starts = {} THEN 0
    ELSE CHOOSE k \in starts : \A d \in starts : k <= d

\* String.prototype.replace with the global pattern and a function: matches
\* are found left to right from position i, never overlapping, and the text
\* a callback returns is not scanned again.  A callback that throws ends the
\* call.  Returns the callback invocations and the outcome.
RECURSIVE ReplaceAll(_, _, _)
ReplaceAll(t, i, p) ==
    LET k == NextMatch(t, i) IN
    IF k = 0 THEN [calls |-> <<>>, out |-> Ok(SubSeq(t, i, Len(t)))]
    ELSE LET j == MatchEnd(t, k)
             key == SubSeq(t, k + 2, j - 1)
             rep == Replacer(key, p)
             c == [key |-> key, at |-> k, rep |-> rep]
         IN  IF rep.threw THEN [calls |-> <<c>>, out |-> Threw]
             ELSE LET r == ReplaceAll(t, j + 1, p) IN
                  [calls |-> <<c>> \o r.calls,
                   out |-> IF r.out.threw THEN Threw
                           ELSE Ok(SubSeq(t, i, k - 1) \o rep.s \o r.out.s)]

\* createPrompt that substitutes again in the text it produced
createPromptRun_Rescan(t, p) ==
    LET first == ReplaceAll(t, 1, p) IN
    IF first.out.threw THEN first
    ELSE [calls |-> first.calls, out |-> ReplaceAll(first.out.s, 1, p).out]

createPromptRun(t, p) == ReplaceAll(t, 1, p)

createPrompt(t, p) == createPromptRun(t, p).out

-----------------------------------------------------------------------------
(* The template registry: supportPromptConfigs and supportPrompt.get/create *)

Kinds == {"ENHANCE", "ANALYZE", "DEBUG", "OPTIMIZE", "DOCUMENT", "TEST"}

LANGUAGE == <<"language">>
USERINPUT == <<"userInput">>

\* The built-in templates: their prose as one unit per stretch, their tokens
\* in source order.  ANALYZE carries a code sample with the literal text
\* ${req.params.id} (written \${req.params.id} in the source).
supportPromptConfigs ==
    [k \in Kinds |->
        CASE k = "ENHANCE" ->
                <<"ENHANCE prose 1 ">> \o Tok(LANGUAGE) \o <<NL>>
                \o Tok(USERINPUT) \o <<" ENHANCE prose 2 ">> \o Tok(LANGUAGE)
          [] k = "ANALYZE" ->
                <<"ANALYZE prose 1 ">> \o Tok(LANGUAGE) \o <<NL>>
                \o Tok(USERINPUT) \o <<NL, "SELECT * FROM users WHERE id = ">>
                \o Tok(<<"req", ".", "params", ".", "id">>)
                \o <<NL, "ANALYZE prose 2">>
          [] k = "DEBUG" ->
                <<"DEBUG prose 1 ">> \o Tok(LANGUAGE) \o <<NL>>
                \o Tok(USERINPUT) \o <<" DEBUG prose 2 ">> \o Tok(LANGUAGE)
          [] k = "OPTIMIZE" ->
                <<"OPTIMIZE prose 1 ">> \o Tok(LANGUAGE) \o <<NL>>
                \o Tok(USERINPUT) \o <<" OPTIMIZE prose 2 ">> \o Tok(LANGUAGE)
          [] k = "DOCUMENT" ->
                <<"DOCUMENT prose 1 ">> \o Tok(LANGUAGE) \o <<NL>>
                \o Tok(USERINPUT) \o <<" DOCUMENT prose 2 ">> \o Tok(LANGUAGE)
          [] OTHER ->
                <<"TEST prose 1 ">> \o Tok(LANGUAGE) \o <<NL>>
                \o Tok(USERINPUT) \o <<" TEST prose 2 ">> \o Tok(LANGUAGE)]

\* get with || in place of ??: an empty custom template falls through
supportPromptGet_Or(customSupportPrompts, type) ==
    IF /\ IsSome(customSupportPrompts)
       /\ type \in DOMAIN Get(customSupportPrompts)
       /\ Get(customSupportPrompts)[type] # <<>>
    THEN Ok(Get(customSupportPrompts)[type])
    ELSE IF type \in Kinds THEN Ok(supportPromptConfigs[type])
    ELSE Threw

\* get that falls back to the ENHANCE template for an unknown type
supportPromptGet_Fallback(customSupportPrompts, type) ==
    IF IsSome(customSupportPrompts) /\ type \in DOMAIN Get(customSupportPrompts)
    THEN Ok(Get(customSupportPrompts)[type])
    ELSE IF type \in Kinds THEN Ok(supportPromptConfigs[type])
    ELSE Ok(supportPromptConfigs["ENHANCE"])

\* customSupportPrompts?.[type] ?? supportPromptConfigs[type].template
\* Reading .template of the undefined registry entry of an unknown type
\* throws a TypeError.
supportPromptGet(customSupportPrompts, type) ==
    IF IsSome(customSupportPrompts) /\ type \in DOMAIN Get(customSupportPrompts)
    THEN Ok(Get(customSupportPrompts)[type])
    ELSE IF type \in Kinds THEN Ok(supportPromptConfigs[type])
    ELSE Threw

\* supportPrompt.create: get, then createPrompt
supportPromptCreate(type, p, customSupportPrompts) ==
    LET tpl == supportPromptGet(customSupportPrompts, type) IN
    IF tpl.threw THEN [calls |-> <<>>, out |-> Threw]
    ELSE createPromptRun(tpl.s, p)

-----------------------------------------------------------------------------
(* addMCPContext: the context blocks appended to a template *)

NotificationPreview == 5
PullRequestPreview == 3
IssuePreview == 3

\* truthiness of an optional string / number of the payload
TruthyStr(o) == IsSome(o) /\ Get(o) # <<>>
TruthyNum(o) == IsSome(o) /\ Get(o) # 0

\* a slice that keeps the whole array
Slice_All(a, n) == a

\* Array.prototype.slice(0, n)
Slice(a, n) == SubSeq(a, 1, IF Len(a) < n THEN Len(a) ELSE n)

\* a number in a template literal
NumStr(n) == <<ToString(n)>>

\* confidence_level * 100 in a template literal; confidence_level is held
\* in hundredths.  The product is a double: 0.29 * 100 is
\* 28.999999999999996 and 0.07 * 100 is 7.000000000000001, while the other
\* values the model draws (0, 0.8) give the exact integer.
TimesHundred(h) ==
    CASE h = 29 -> <<"28.999999999999996">>
      [] h = 7 -> <<"7.000000000000001">>
      [] OTHER -> <<ToString(h)>>

QualityIssueLines(issue) ==
    <<"- **">> \o issue.severity \o <<"** (">> \o issue.category
    \o <<"): ">> \o issue.message \o <<NL>>
    \o (IF TruthyStr(issue.file)
        THEN <<"  File: ">> \o Get(issue.file)
             \o (IF TruthyNum(issue.line)
                 THEN <<":">> \o NumStr(Get(issue.line)) ELSE <<>>)
             \o <<NL>>
        ELSE <<>>)

QualityBlock(m) ==
    IF IsSome(m.codeQuality) /\ Len(Get(m.codeQuality).issues) > 0 THEN
        LET cq == Get(m.codeQuality) IN
        <<NL, NL, "<code_quality_context>", NL,
          "**CURRENT CODE QUALITY ISSUES TO ADDRESS:**", NL>>
        \o Flatten([i \in 1..Len(cq.issues) |-> QualityIssueLines(cq.issues[i])])
        \o <<NL, "**Quality Metrics:**", NL>>
        \o (IF IsSome(cq.metrics) THEN
                LET mt == Get(cq.metrics) IN
                <<"- Grade: ">> \o mt.grade \o <<NL, "- Coverage: ">>
                \o NumStr(mt.coverage) \o <<"%", NL, "- Duplication: ">>
                \o NumStr(mt.duplication) \o <<"%", NL, "- Complexity: ">>
                \o NumStr(mt.complexity) \o <<NL>>
            ELSE <<>>)
        \o <<NL, "Please address these quality issues in your recommendations.",
             NL, "</code_quality_context>">>
    ELSE <<>>

VulnerabilityLines(vuln) ==
    <<"- **">> \o vuln.severity \o <<"** (">> \o vuln.category
    \o <<"): ">> \o vuln.description \o <<NL>>
    \o (IF TruthyStr(vuln.remediation)
        THEN <<"  Remediation: ">> \o Get(vuln.remediation) \o <<NL>>
        ELSE <<>>)

SecurityBlock(m) ==
    IF IsSome(m.security) /\ Len(Get(m.security).vulnerabilities) > 0 THEN
        LET vs == Get(m.security).vulnerabilities IN
        <<NL, NL, "<security_context>", NL,
          "**SECURITY VULNERABILITIES TO ADDRESS:**", NL>>
        \o Flatten([i \in 1..Len(vs) |-> VulnerabilityLines(vs[i])])
        \o <<NL, "Prioritize security fixes in your response, especially Critical and High severity issues.",
             NL, "</security_context>">>
    ELSE <<>>

\* an optional list that is present, empty or not
NonEmptyList_Present(o) == IsSome(o)

\* an optional list that is present and non-empty
NonEmptyList(o) == IsSome(o) /\ Len(Get(o)) > 0

hasGitHubContext(m) ==
    /\ IsSome(m.github)
    /\ \/ NonEmptyList(Get(m.github).notifications)
       \/ NonEmptyList(Get(m.github).pullRequests)
       \/ NonEmptyList(Get(m.github).issues)

CollaborationBlock(m) ==
    IF hasGitHubContext(m) THEN
        LET gh == Get(m.github) IN
        <<NL, NL, "<collaboration_context>", NL,
          "**CURRENT GITHUB ACTIVITY:**", NL>>
        \o (IF NonEmptyList(gh.notifications) THEN
                LET ns == Slice(Get(gh.notifications), NotificationPreview) IN
                <<"**Recent Notifications:**", NL>>
                \o Flatten([i \in 1..Len(ns) |->
                     <<"- ">> \o ns[i].type \o <<": ">> \o ns[i].subject
                     \o <<" (">> \o ns[i].repository \o <<")", NL>>])
            ELSE <<>>)
        \o (IF NonEmptyList(gh.pullRequests) THEN
                LET prs == Slice(Get(gh.pullRequests), PullRequestPreview) IN
                <<"**Active Pull Requests:**", NL>>
                \o Flatten([i \in 1..Len(prs) |->
                     <<"- ">> \o prs[i].title \o <<" (">> \o prs[i].status
                     \o <<")", NL>>])
            ELSE <<>>)
        \o (IF NonEmptyList(gh.issues) THEN
                LET is == Slice(Get(gh.issues), IssuePreview) IN
                <<"**Open Issues:**", NL>>
                \o Flatten([i \in 1..Len(is) |->
                     <<"- ">> \o is[i].title \o <<" (">>
                     \o JoinStr(is[i].labels, <<", ">>) \o <<")", NL>>])
            ELSE <<>>)
        \o <<NL, "Consider these active items when providing recommendations.",
             NL, "</collaboration_context>">>
    ELSE <<>>

ReasoningBlock(m) ==
    IF IsSome(m.reasoning) /\ TruthyStr(Get(m.reasoning).thinking_process) THEN
        LET r == Get(m.reasoning) IN
        <<NL, NL, "<reasoning_context>", NL,
          "**SYSTEMATIC THINKING PROCESS:**", NL>>
        \o <<"Process: ">> \o Get(r.thinking_process) \o <<NL>>
        \o (IF TruthyStr(r.hypothesis)
            THEN <<"Hypothesis: ">> \o Get(r.hypothesis) \o <<NL>> ELSE <<>>)
        \o (IF TruthyStr(r.verification)
            THEN <<"Verification: ">> \o Get(r.verification) \o <<NL>> ELSE <<>>)
        \o (IF TruthyNum(r.confidence_level)
            THEN <<"Confidence: ">> \o TimesHundred(Get(r.confidence_level))
                 \o <<"%", NL>>
            ELSE <<>>)
        \o <<NL, "Use this systematic approach in your analysis and recommendations.",
             NL, "</reasoning_context>">>
    ELSE <<>>

\* addMCPContext that appends the reasoning block first
addMCPContext_ReasoningFirst(t, mcpContext) ==
    t \o ReasoningBlock(mcpContext) \o QualityBlock(mcpContext)
      \o SecurityBlock(mcpContext) \o CollaborationBlock(mcpContext)

addMCPContext(t, mcpContext) ==
    t \o QualityBlock(mcpContext) \o SecurityBlock(mcpContext)
      \o CollaborationBlock(mcpContext) \o ReasoningBlock(mcpContext)

-----------------------------------------------------------------------------
(* createAdvancedPrompt and createMCPEnhancedPrompt *)

TASK_CONTEXT == "<task_context>"
UNSURE == "If you're unsure"

\* the footer of the error-handling enhancement
ErrorHandlingFooter ==
    <<NL, NL, "<error_handling>", NL,
      "If you encounter any ambiguity or need clarification, please:", NL,
      "1. Ask specific questions about unclear requirements", NL,
      "2. State your assumptions explicitly", NL,
      "3. Provide alternative approaches when applicable", NL,
      "4. Request additional context if needed for optimal results", NL,
      "</error_handling>">>

\* property names every object inherits from Object.prototype
ObjectPrototypeKeys == {<<"constructor">>, <<"toString">>, <<"valueOf">>}

\* the `in` operator: own and inherited properties
HasProperty(p, key) == key \in DOMAIN p \/ key \in ObjectPrototypeKeys

\* template.match(/\$\{(.*?)\}/g)?.map(match => match.slice(2, -1)) || []
RECURSIVE MatchKeys(_, _)
MatchKeys(t, i) ==
    LET k == NextMatch(t, i) IN
    IF k = 0 THEN <<>>
    ELSE LET j == MatchEnd(t, k) IN
         <<SubSeq(t, k + 2, j - 1)>> \o MatchKeys(t, j + 1)

MissingParams(t, p) ==
    LET requiredParams == MatchKeys(t, 1)
        IsMissing(param) == ~HasProperty(p, param) /\ param # DIAGTEXT
    IN  SelectSeq(requiredParams, IsMissing)

\* the template createAdvancedPrompt hands to createPrompt
EnhancedTemplate(t, opts) ==
    LET wrapped ==
            IF opts.enhanceStructure /\ ~Includes(t, <<TASK_CONTEXT>>)
            THEN <<TASK_CONTEXT, NL>> \o t \o <<NL, "</task_context>">>
            ELSE t
        withContext ==
            IF IsSome(opts.mcpContext)
            THEN addMCPContext(wrapped, Get(opts.mcpContext))
            ELSE wrapped
    IN  IF opts.addErrorHandling /\ ~Includes(t, <<UNSURE>>)
        THEN withContext \o ErrorHandlingFooter
        ELSE withContext

\* opts is the options object after the defaults are merged in
createAdvancedPromptRun(t, p, opts) ==
    LET missingParams == MissingParams(t, p)
        run == createPromptRun(EnhancedTemplate(t, opts), p)
    IN  [warnings |-> IF opts.validateInputs /\ Len(missingParams) > 0
                      THEN <<missingParams>> ELSE <<>>,
         calls |-> run.calls,
         out |-> run.out]

\* tag replacer invocations with the createPrompt call that made them
InPass(cs, n) ==
    [i \in 1..Len(cs) |->
        [key |-> cs[i].key, at |-> cs[i].at, rep |-> cs[i].rep, pass |-> n]]

createMCPEnhancedPromptRun(type, p, mcpContext, customSupportPrompts) ==
    LET basePrompt == supportPromptCreate(type, p, customSupportPrompts) IN
    IF basePrompt.out.threw
    THEN [warnings |-> <<>>, calls |-> InPass(basePrompt.calls, 1), out |-> Threw]
    ELSE LET adv == createAdvancedPromptRun(basePrompt.out.s, p,
                        [validateInputs |-> TRUE, enhanceStructure |-> TRUE,
                         addErrorHandling |-> TRUE, mcpContext |-> mcpContext])
         IN  [warnings |-> adv.warnings,
              calls |-> InPass(basePrompt.calls, 1) \o InPass(adv.calls, 2),
              out |-> adv.out]

-----------------------------------------------------------------------------
(* The inputs the calls are made with *)

MaxPieces == 2

KEY_A == <<"a">>
KEY_B == <<"b">>
KEY_DOTTED == <<"a", ".", "b">>
KEY_SPACED == <<"a", " ", "b">>

\* what templates are put together from: literal text, stray "$", "{", "}",
\* a line break, an opened token, well-formed tokens, tokens whose content
\* is empty or not an identifier, and a token broken by a line break
Pieces ==
    { <<"a">>, <<DOLLAR>>, <<LBRACE>>, <<RBRACE>>, <<NL>>, <<DOLLAR, LBRACE>>,
      Tok(KEY_A), Tok(KEY_B), Tok(DIAGTEXT), Tok(DIAGNOSTICS), Tok(<<>>),
      Tok(KEY_DOTTED), Tok(KEY_SPACED), <<DOLLAR, LBRACE, "a", NL, RBRACE>> }

DiagPieces == { <<"a">>, Tok(KEY_A), Tok(DIAGTEXT), Tok(DIAGNOSTICS) }

PieceStrings(ps) ==
    UNION { {Flatten(f) : f \in [1..n -> ps]} : n \in 0..MaxPieces }

Templates == PieceStrings(Pieces)
DiagTemplates == PieceStrings(DiagPieces)

\* a mapping with the entries of the optional values given for each key
Entry(key, o) == IF IsSome(o) THEN key :> Get(o) ELSE <<>>

AValues ==
    { None, Some(StrV(<<"v">>)), Some(StrV(<<>>)), Some(StrV(Tok(KEY_B))),
      Some(StrV(<<"v">> \o Tok(KEY_A))), Some(ArrV(<<>>)),
      Some(ArrV(<<StrV(<<"v">>)>>)),
      Some(ArrV(<<StrV(<<"v">>), StrV(<<"w">>)>>)), Some(NumV(7)) }

PlainParams ==
    { Entry(KEY_A, a) @@ Entry(KEY_B, b) @@ Entry(KEY_DOTTED, d) :
        a \in AValues,
        b \in {None, Some(StrV(<<"w">>))},
        d \in {None, Some(StrV(<<"p">>))} }

DiagRecords ==
    { ObjV(source, message, code) :
        source \in {None, Some(StrV(<<"eslint">>)), Some(StrV(<<>>))},
        message \in {None, Some(StrV(<<"X">>)), Some(StrV(<<"Y">>))},
        code \in {None, Some(StrV(<<"E1">>)), Some(StrV(<<>>)),
                  Some(NumV(0)), Some(NumV(3))} }

DiagR1 == ObjV(None, Some(StrV(<<"X">>)), None)
DiagR2 == ObjV(Some(StrV(<<"eslint">>)), Some(StrV(<<"Y">>)), Some(StrV(<<"E1">>)))

DiagValues ==
    { ArrV(<<d>>) : d \in DiagRecords }
    \cup { ArrV(<<>>), ArrV(<<DiagR1, DiagR2>>), ArrV(<<DiagR2, DiagR1>>),
           ArrV(<<DiagR1, DiagR1>>), ArrV(<<NullV>>), ArrV(<<StrV(<<"v">>)>>),
           StrV(<<"s">>), StrV(<<>>) }

DiagParams ==
    { (DIAGNOSTICS :> dv) @@ Entry(DIAGTEXT, lit) @@ Entry(KEY_A, a) :
        dv \in DiagValues,
        lit \in {None, Some(StrV(<<"lit">>))},
        a \in {None, Some(StrV(<<"v">>))} }

\* parameter mappings of requests for the built-in kinds
RequestParams ==
    { Entry(USERINPUT, u) @@ Entry(LANGUAGE, l) :
        u \in {None, Some(StrV(<<"sort an array">>)), Some(StrV(Tok(LANGUAGE))),
               Some(StrV(<<"cost ">> \o Tok(<<"j">>)))},
        l \in {None, Some(StrV(<<"Python">>)), Some(StrV(Tok(USERINPUT)))} }

RequestKinds == Kinds \cup {"NOT_A_KIND", "CUSTOM_KIND"}

CustomT1 == <<"custom prose ">> \o Tok(USERINPUT)
CustomT2 == <<"other prose ">> \o Tok(LANGUAGE)

Customs ==
    { None, Some(<<>>) }
    \cup { Some(k :> t) : k \in {"ENHANCE", "CUSTOM_KIND"}, t \in {<<>>, CustomT1} }
    \cup { Some(("ENHANCE" :> CustomT1) @@ ("DEBUG" :> CustomT2)) }

EmptyContext ==
    [codeQuality |-> None, security |-> None, github |-> None, reasoning |-> None]

ReasoningContext(process, confidence) ==
    [EmptyContext EXCEPT !.reasoning =
        Some([thinking_process |-> Some(process), hypothesis |-> None,
              verification |-> None, confidence_level |-> confidence])]

QualityContext(message) ==
    [EmptyContext EXCEPT !.codeQuality =
        Some([issues |-> << [severity |-> <<"High">>, category |-> <<"Security">>,
                             message |-> message, file |-> None, line |-> None] >>,
              metrics |-> None])]

Contexts ==
    { None, Some(EmptyContext),
      Some(ReasoningContext(<<"steps">>, Some(80))),
      Some(ReasoningContext(<<"see ">> \o Tok(LANGUAGE), None)),
      Some(QualityContext(<<"unsanitised ">> \o Tok(<<"j">>))) }

\* payload sections for the context blocks
Issue1 ==
    [severity |-> <<"High">>, category |-> <<"Security">>,
     message |-> <<"unsanitised input">>, file |-> None, line |-> None]
Issue2 ==
    [severity |-> <<"Low">>, category |-> <<"Style">>,
     message |-> <<"long line">>, file |-> Some(<<"src/a.ts">>),
     line |-> Some(3)]
Issue3 ==
    [severity |-> <<"Low">>, category |-> <<"Style">>,
     message |-> <<"unused import">>, file |-> Some(<<"src/b.ts">>),
     line |-> None]

Metrics1 ==
    [grade |-> <<"B">>, coverage |-> 75, duplication |-> 4, complexity |-> 12]

QualitySections ==
    { None,
      Some([issues |-> <<>>, metrics |-> Some(Metrics1)]),
      Some([issues |-> <<Issue2, Issue1>>, metrics |-> None]),
      Some([issues |-> <<Issue1, Issue1, Issue3>>, metrics |-> Some(Metrics1)]) }

Vuln1 ==
    [severity |-> <<"Critical">>, category |-> <<"Injection">>,
     description |-> <<"query built by concatenation">>, remediation |-> None]
Vuln2 ==
    [severity |-> <<"Medium">>, category |-> <<"Secrets">>,
     description |-> <<"token in log">>,
     remediation |-> Some(<<"redact the token">>)]

SecuritySections ==
    { None,
      Some([vulnerabilities |-> <<>>]),
      Some([vulnerabilities |-> <<Vuln2, Vuln1, Vuln2>>]) }

\* lists of n entries, numbered downwards so that payload order is not
\* the sorted order
Notifications(n) ==
    [i \in 1..n |->
        [type |-> <<"mention">>, subject |-> <<"subject ", ToString(n + 1 - i)>>,
         repository |-> <<"org/repo">>]]
PullRequests(n) ==
    [i \in 1..n |->
        [title |-> <<"pull request ", ToString(n + 1 - i)>>,
         status |-> <<"open">>]]
Issues(n) ==
    [i \in 1..n |->
        [title |-> <<"issue ", ToString(n + 1 - i)>>,
         labels |-> IF i = 1 THEN <<<<"bug">>, <<"p1">>>> ELSE <<>>]]

Github(ns, prs, is) ==
    Some([notifications |-> ns, pullRequests |-> prs, issues |-> is])

GithubSections ==
    { None,
      Github(None, None, None),
      Github(Some(<<>>), Some(<<>>), Some(<<>>)),
      Github(Some(Notifications(NotificationPreview + 1)), None, Some(<<>>)),
      Github(None, Some(PullRequests(PullRequestPreview + 1)), Some(Issues(1))),
      Github(Some(Notifications(2)), Some(PullRequests(1)),
             Some(Issues(IssuePreview + 1))) }

ReasoningSections ==
    { None }
    \cup
    { Some([thinking_process |-> tp, hypothesis |-> h, verification |-> v,
            confidence_level |-> c]) :
        tp \in {None, Some(<<>>), Some(<<"steps">>)},
        h \in {None, Some(<<"off by one">>)},
        v \in {None, Some(<<"unit test">>)},
        c \in {None, Some(0), Some(80), Some(29)} }

SectionContexts ==
    { [codeQuality |-> q, security |-> sec, github |-> g, reasoning |-> r] :
        q \in QualitySections, sec \in SecuritySections,
        g \in GithubSections, r \in ReasoningSections }

PlainTemplate == <<"plain prose">>

NoOptions ==
    [validateInputs |-> FALSE, enhanceStructure |-> FALSE,
     addErrorHandling |-> FALSE]

DefaultOptions ==
    [validateInputs |-> TRUE, enhanceStructure |-> TRUE, addErrorHandling |-> TRUE]

OptionSets ==
    [validateInputs : BOOLEAN, enhanceStructure : BOOLEAN, addErrorHandling : BOOLEAN]

AdvancedTemplates ==
    { supportPromptConfigs["ENHANCE"], CustomT1,
      <<TASK_CONTEXT, NL>> \o CustomT1 \o <<NL, "</task_context>">>,
      CustomT2 \o <<NL, UNSURE, " ask.">> }

-----------------------------------------------------------------------------
(* The engine's entry points, each called once on the inputs of Init *)

CallCreatePrompt ==
    /\ op = "createPrompt" /\ pc = "ready"
    /\ LET run == createPromptRun(template, params) IN
       /\ calls' = InPass(run.calls, 1)
       /\ result' = Some(run.out)
    /\ pc' = "done"
    /\ UNCHANGED <<op, inputVars, otherVars, again, warnings, routeVars>>

CallGet ==
    /\ op = "get" /\ pc = "ready"
    /\ result' = Some(supportPromptGet(custom, kind))
    /\ pc' = "done"
    /\ UNCHANGED <<op, inputVars, otherVars, again, calls, warnings, routeVars>>

CallCreate ==
    /\ op = "create" /\ pc = "ready"
    /\ LET run == supportPromptCreate(kind, params, custom) IN
       /\ calls' = InPass(run.calls, 1)
       /\ result' = Some(run.out)
    /\ pc' = "done"
    /\ UNCHANGED <<op, inputVars, otherVars, again, warnings, routeVars>>

CallCreateAdvancedPrompt ==
    /\ op = "createAdvancedPrompt" /\ pc = "ready"
    /\ LET run == createAdvancedPromptRun(template, params,
                      [validateInputs |-> options.validateInputs,
                       enhanceStructure |-> options.enhanceStructure,
                       addErrorHandling |-> options.addErrorHandling,
                       mcpContext |-> mcp])
       IN /\ calls' = InPass(run.calls, 1)
          /\ warnings' = run.warnings
          /\ result' = Some(run.out)
    /\ pc' = "done"
    /\ UNCHANGED <<op, inputVars, otherVars, again, routeVars>>

\* createAdvancedPrompt called on the prompt it returned, with the same
\* params and options
CallCreateAdvancedPromptAgain ==
    /\ op = "createAdvancedPrompt" /\ pc = "done"
    /\ again = None
    /\ IsSome(result) /\ ~Get(result).threw
    /\ again' = Some(createAdvancedPromptRun(Get(result).s, params,
                      [validateInputs |-> options.validateInputs,
                       enhanceStructure |-> options.enhanceStructure,
                       addErrorHandling |-> options.addErrorHandling,
                       mcpContext |-> mcp]).out)
    /\ UNCHANGED <<op, pc, inputVars, otherVars, calls, warnings, result, routeVars>>

CallCreateMCPEnhancedPrompt ==
    /\ op = "createMCPEnhancedPrompt" /\ pc = "ready"
    /\ LET run == createMCPEnhancedPromptRun(kind, params, mcp, custom) IN
       /\ calls' = run.calls
       /\ warnings' = run.warnings
       /\ result' = Some(run.out)
    /\ pc' = "done"
    /\ UNCHANGED <<op, inputVars, otherVars, again, routeVars>>

-----------------------------------------------------------------------------
(* POST /api/generate *)

FREE_DAILY_TOKENS == 2500000
PREMIUM_DAILY_TOKENS == 250000
OutputAllowance == 512
CharsPerToken == 4

isPremiumModel(model) == model = "premium"
isLimitedModel(model) == model = "limited"

Bucket(model) == IF isPremiumModel(model) THEN "premium" ELSE "free"
Limit(model) == IF isPremiumModel(model) THEN PREMIUM_DAILY_TOKENS ELSE FREE_DAILY_TOKENS

\* the key of the usage document: (userId || 'anon', bucket), one day
UsageKey(userId, model) == <<userId, Bucket(model)>>

\* Math.ceil((prompt?.length || 0) / 4) + 512, the length counted in units
EstimatedTokens(prompt) ==
    (Len(prompt) + CharsPerToken - 1) \div CharsPerToken + OutputAllowance

Respond(status, body) ==
    /\ response' = Some([status |-> status, body |-> body])
    /\ pc' = "done"

\* lines 11-16: a body that is not JSON makes req.json() throw
R_Body ==
    /\ op = "POST" /\ pc = "r_body"
    /\ IF req.bodyOk THEN pc' = "r_auth" /\ UNCHANGED response
       ELSE Respond(500, "error")
    /\ UNCHANGED <<op, inputVars, otherVars, again, calls, warnings, result, req, locals, usage,
                   openaiCalls, events>>

\* lines 19-35: the session, else the google-auth-user cookie
R_Auth ==
    /\ op = "POST" /\ pc = "r_auth"
    /\ locals' = [locals EXCEPT
            !.authed = req.session \/ req.cookie = "valid",
            !.userId = IF req.session THEN "u1"
                       ELSE IF req.cookie = "valid" THEN "u2" ELSE "anon"]
    /\ pc' = "r_model"
    /\ UNCHANGED <<op, inputVars, otherVars, again, calls, warnings, result, req, usage,
                   response, openaiCalls, events>>

\* lines 37-42
R_Model ==
    /\ op = "POST" /\ pc = "r_model"
    /\ IF isPremiumModel(req.model) /\ ~locals.authed THEN Respond(403, "error")
       ELSE IF ~isPremiumModel(req.model) /\ ~isLimitedModel(req.model)
            THEN Respond(400, "error")
       ELSE pc' = "r_create" /\ UNCHANGED response
    /\ UNCHANGED <<op, inputVars, otherVars, again, calls, warnings, result, req, locals, usage,
                   openaiCalls, events>>

\* line 44; an exception lands in the catch of lines 159-162
R_Create ==
    /\ op = "POST" /\ pc = "r_create"
    /\ LET run == supportPromptCreate(kind, params, None) IN
       /\ calls' = InPass(run.calls, 1)
       /\ result' = Some(run.out)
       /\ IF run.out.threw THEN Respond(500, "error")
          ELSE pc' = "r_key" /\ UNCHANGED response
    /\ UNCHANGED <<op, inputVars, otherVars, again, warnings, req, locals, usage, openaiCalls,
                   events>>

\* a variant that has charged the estimate before it looks for the key
R_Key_AfterQuota ==
    /\ op = "POST" /\ pc = "r_key"
    /\ IF req.apiKey THEN pc' = "r_quota" /\ UNCHANGED <<response, usage>>
       ELSE /\ Respond(500, "error")
            /\ usage' = [usage EXCEPT ![UsageKey(locals.userId, req.model)] =
                            @ + EstimatedTokens(Get(result).s)]
    /\ UNCHANGED <<op, inputVars, otherVars, again, calls, warnings, result, req,
                   locals, openaiCalls, events>>

\* lines 46-52
R_Key ==
    /\ op = "POST" /\ pc = "r_key"
    /\ IF req.apiKey THEN pc' = "r_quota" /\ UNCHANGED response
       ELSE Respond(500, "error")
    /\ UNCHANGED <<op, inputVars, otherVars, again, calls, warnings, result, req, locals, usage,
                   openaiCalls, events>>

\* lines 55-56 and checkAndConsumeTokens up to its test: the upsert with $inc
R_Quota ==
    /\ op = "POST" /\ pc = "r_quota"
    /\ LET tokens == EstimatedTokens(Get(result).s)
           key == UsageKey(locals.userId, req.model)
           used == usage[key] + tokens
       IN /\ usage' = [usage EXCEPT ![key] = used]
          /\ locals' = [locals EXCEPT !.tokens = tokens, !.used = used]
          /\ pc' = IF used > Limit(req.model) THEN "r_revert" ELSE "r_openai"
    /\ UNCHANGED <<op, inputVars, otherVars, again, calls, warnings, result, req, response,
                   openaiCalls, events>>

\* a variant that reverts the increment and goes on to the completion
R_QuotaRevert_ThenCall ==
    /\ op = "POST" /\ pc = "r_revert"
    /\ LET key == UsageKey(locals.userId, req.model) IN
       usage' = [usage EXCEPT ![key] = @ - locals.tokens]
    /\ pc' = "r_openai"
    /\ UNCHANGED <<op, inputVars, otherVars, again, calls, warnings, result, req,
                   locals, response, openaiCalls, events>>

\* checkAndConsumeTokens over its limit: the increment is reverted; lines 57-62
R_QuotaRevert ==
    /\ op = "POST" /\ pc = "r_revert"
    /\ LET key == UsageKey(locals.userId, req.model) IN
       usage' = [usage EXCEPT ![key] = @ - locals.tokens]
    /\ Respond(429, "error")
    /\ UNCHANGED <<op, inputVars, otherVars, again, calls, warnings, result, req, locals,
                   openaiCalls, events>>

\* lines 146-158: the completion without streaming
R_NonStream ==
    /\ op = "POST" /\ pc = "r_openai" /\ ~req.streaming
    /\ openaiCalls' = openaiCalls + 1
    /\ IF req.completion.createFails THEN Respond(500, "error")
       ELSE Respond(200, "json")
    /\ UNCHANGED <<op, inputVars, otherVars, again, calls, warnings, result, req, locals, usage,
                   events>>

\* lines 80-104 and 136-145: start() runs to its first await (the metadata
\* is enqueued, the completion requested) and the Response is returned
R_StreamStart ==
    /\ op = "POST" /\ pc = "r_openai" /\ req.streaming
    /\ events' = <<[type |-> "metadata", content |-> Get(result).s]>>
    /\ openaiCalls' = openaiCalls + 1
    /\ response' = Some([status |-> 200, body |-> "stream"])
    /\ pc' = "s_create"
    /\ UNCHANGED <<op, inputVars, otherVars, again, calls, warnings, result, req, locals, usage>>

\* a variant that reports the failure and carries on with the next chunk
StreamError_Open ==
    /\ events' = Append(events, [type |-> "error", content |-> <<>>])
    /\ locals' = [locals EXCEPT
            !.next = IF @ <= Len(req.completion.chunks) THEN @ + 1 ELSE @]
    /\ pc' = "s_chunk"

StreamError ==
    /\ events' = Append(events, [type |-> "error", content |-> <<>>])
    /\ locals' = [locals EXCEPT !.closed = TRUE]
    /\ pc' = "done"

\* line 95 resolves or rejects (catch of lines 124-132)
S_Create ==
    /\ op = "POST" /\ pc = "s_create"
    /\ IF req.completion.createFails THEN StreamError
       ELSE pc' = "s_chunk" /\ UNCHANGED <<events, locals>>
    /\ UNCHANGED <<op, inputVars, otherVars, again, calls, warnings, result, req, usage,
                   response, openaiCalls>>

\* lines 107-116: one turn of the for await loop
S_Chunk ==
    /\ op = "POST" /\ pc = "s_chunk"
    /\ locals.next <= Len(req.completion.chunks)
    /\ IF req.completion.failAt = locals.next THEN StreamError
       ELSE LET content == req.completion.chunks[locals.next] IN
            /\ events' = IF content # <<>>
                         THEN Append(events, [type |-> "content", content |-> content])
                         ELSE events
            /\ locals' = [locals EXCEPT !.next = @ + 1]
            /\ pc' = "s_chunk"
    /\ UNCHANGED <<op, inputVars, otherVars, again, calls, warnings, result, req, usage,
                   response, openaiCalls>>

\* lines 118-123: the iterator is exhausted
S_Complete ==
    /\ op = "POST" /\ pc = "s_chunk"
    /\ locals.next > Len(req.completion.chunks)
    /\ events' = Append(events, [type |-> "complete", content |-> <<>>])
    /\ locals' = [locals EXCEPT !.closed = TRUE]
    /\ pc' = "done"
    /\ UNCHANGED <<op, inputVars, otherVars, again, calls, warnings, result, req, usage,
                   response, openaiCalls>>

-----------------------------------------------------------------------------
(* checkAndConsumeTokens called by concurrent requests: src/lib/models.ts *)

MaxCallers == 2
Callers == 1..MaxCallers

\* a test that never finds the counter over the limit
OverLimit_Never(used, model) == FALSE

\* line 84
OverLimit(used, model) == used > Limit(model)

\* a revert that leaves the counter as it is
Reverted_Kept(counter, tokens) == counter

\* line 88: $inc by -tokens
Reverted(counter, tokens) == counter - tokens

\* lines 67-81: the key, then findOneAndUpdate with upsert, $inc and
\* returnDocument 'after', one atomic operation of the database whose result
\* carries the counter as incremented (doc.value.tokens); then the test of
\* line 84, which reads only locals
checkAndConsumeTokensUpsert(c) ==
    /\ op = "checkAndConsumeTokens" /\ quotaCalls[c].at = "upsert"
    /\ LET q == quotaCalls[c]
           key == UsageKey(q.userId, q.model)
           used == usage[key] + q.tokens
       IN /\ usage' = [usage EXCEPT ![key] = used]
          /\ quotaCalls' = [quotaCalls EXCEPT ![c] =
                [q EXCEPT !.used = used,
                          !.at = IF OverLimit(used, q.model) THEN "revert"
                                 ELSE "returned",
                          !.allowed = ~OverLimit(used, q.model)]]
    /\ UNCHANGED <<op, pc, inputVars, again, calls, warnings, result, req,
                   locals, response, openaiCalls, events, usage0, client>>

\* lines 85-87: the increment is taken back by a second operation and the
\* call returns allowed: false
checkAndConsumeTokensRevert(c) ==
    /\ op = "checkAndConsumeTokens" /\ quotaCalls[c].at = "revert"
    /\ LET q == quotaCalls[c]
           key == UsageKey(q.userId, q.model)
       IN /\ usage' = [usage EXCEPT ![key] = Reverted(@, q.tokens)]
          /\ quotaCalls' = [quotaCalls EXCEPT ![c] = [q EXCEPT !.at = "returned"]]
    /\ UNCHANGED <<op, pc, inputVars, again, calls, warnings, result, req,
                   locals, response, openaiCalls, events, usage0, client>>

-----------------------------------------------------------------------------
(* The browser: onAskOpenAI of PromptPlayground.tsx and the useStreamingApi *)
(* hook of src/lib/useStreamingApi.ts                                       *)

\* An event of the stream.  The response body is a sequence of units, each
\* a piece of text that a read chunk cannot split further: the two halves of
\* the prefix "data: ", the two halves of the JSON text of one event, "\n".
Ev(type, content, error) == [type |-> type, content |-> content, error |-> error]
NoEvent == Ev("", <<>>, <<>>)
Unit(ch, ev) == [ch |-> ch, ev |-> ev]

\* route.ts lines 87-92, 111-114, 119-121, 127-130: the text
\* "data: ", the JSON text of the event and two newlines
Encode(ev) ==
    << Unit("da", NoEvent), Unit("ta: ", NoEvent), Unit("json1", ev),
       Unit("json2", ev), Unit(NL, NoEvent), Unit(NL, NoEvent) >>

RECURSIVE EncodeAll(_)
EncodeAll(evs) ==
    IF evs = <<>> THEN <<>> ELSE Encode(Head(evs)) \o EncodeAll(Tail(evs))

\* the index of the first "\n" of b, or 0
RECURSIVE IndexOfNL(_, _)
IndexOfNL(b, i) ==
    IF i > Len(b) THEN 0
    ELSE IF b[i].ch = NL THEN i
    ELSE IndexOfNL(b, i + 1)

\* a split that hands the unfinished last piece to the loop as a line
RECURSIVE SplitLines_NoCarry(_)
SplitLines_NoCarry(b) ==
    LET i == IndexOfNL(b, 1) IN
    IF i = 0 THEN [lines |-> IF b = <<>> THEN <<>> ELSE <<b>>, rest |-> <<>>]
    ELSE LET tl == SplitLines_NoCarry(SubSeq(b, i + 1, Len(b))) IN
         [lines |-> <<SubSeq(b, 1, i - 1)>> \o tl.lines, rest |-> <<>>]

\* lines 146-147: buffer.split('\n') without its last piece, and that piece
RECURSIVE SplitLines(_)
SplitLines(b) ==
    LET i == IndexOfNL(b, 1) IN
    IF i = 0 THEN [lines |-> <<>>, rest |-> b]
    ELSE LET tl == SplitLines(SubSeq(b, i + 1, Len(b))) IN
         [lines |-> <<SubSeq(b, 1, i - 1)>> \o tl.lines, rest |-> tl.rest]

\* line 153: line.startsWith('data: ')
StartsWithData(line) ==
    Len(line) >= 2 /\ line[1].ch = "da" /\ line[2].ch = "ta: "

\* lines 155-156: JSON.parse(line.slice(6)); None when it throws
JSONParse(text) ==
    IF /\ Len(text) = 2
       /\ text[1].ch = "json1" /\ text[2].ch = "json2"
       /\ text[1].ev = text[2].ev
    THEN Some(text[1].ev)
    ELSE None

Callback(name, arg) == [name |-> name, arg |-> arg]

\* the component's callbacks, PromptPlayground.tsx lines 346-365, applied to
\* the state st of the browser
onComplete(st, fullContent) ==
    [st EXCEPT !.callbacks = Append(@, Callback("onComplete", fullContent)),
               !.aiOutput = fullContent, !.loading = FALSE]

onError(st, errorMessage) ==
    [st EXCEPT !.callbacks = Append(@, Callback("onError", errorMessage)),
               !.uiError = errorMessage, !.loading = FALSE]

onContent(st, content) ==
    [st EXCEPT !.callbacks = Append(@, Callback("onContent", content))]

onMetadata(st, content) ==
    [st EXCEPT !.callbacks = Append(@, Callback("onMetadata", content))]

\* lines 181-183: the catch around the parse and the switch only logs
Logged(st, what) == [st EXCEPT !.console = Append(@, what)]

\* lines 158-179: the switch on data.type; returned is set by the return
\* of line 172
Dispatch(st, data) ==
    CASE data.type = "metadata" -> onMetadata(st, data.content)
      [] data.type = "content" ->
            IF data.content # <<>>
            THEN LET acc == st.accumulatedContent \o data.content IN
                 onContent([st EXCEPT !.accumulatedContent = acc,
                                      !.streamedContent = acc],
                           data.content)
            ELSE st
      [] data.type = "complete" ->
            [onComplete(st, st.accumulatedContent) EXCEPT !.returned = TRUE]
      [] data.type = "error" -> Logged(st, "Failed to parse streaming data")
      [] OTHER -> Logged(st, "Unknown stream data type")

\* lines 150-184: one line of the buffer
ProcessLine(st, line) ==
    IF line = <<>> THEN st
    ELSE IF ~StartsWithData(line) THEN st
    ELSE LET data == JSONParse(SubSeq(line, 3, Len(line))) IN
         IF data = None THEN Logged(st, "Failed to parse streaming data")
         ELSE Dispatch(st, Get(data))

\* lines 149-185: the for loop, left by the return of the complete event
RECURSIVE ProcessLines(_, _)
ProcessLines(st, lines) ==
    IF lines = <<>> \/ st.returned THEN st
    ELSE ProcessLines(ProcessLine(st, Head(lines)), Tail(lines))

\* lines 115-117
Settled(st) == [st EXCEPT !.isStreaming = FALSE, !.at = "settled"]

\* lines 106-114, for an error that is not an AbortError
Failed(st, errorMessage) ==
    Settled(onError([st EXCEPT !.error = Some(errorMessage)], errorMessage))

ClientUnchanged ==
    UNCHANGED <<op, pc, inputVars, again, calls, warnings, result, routeVars,
                usage0, quotaCalls>>

\* PromptPlayground.tsx lines 478-497 and useStreamingApi.ts lines 38-44:
\* the click handler up to the fetch
onAskOpenAI ==
    /\ op = "onAskOpenAI" /\ client.at = "idle"
    /\ ~(client.loading \/ client.isStreaming)
    /\ IF client.premiumModel /\ ~client.isAuthenticated
       THEN client' = [client EXCEPT
                !.uiError = <<"Sign in with Google to use premium models.">>,
                !.aiOutput = <<>>, !.streamedContent = <<>>, !.error = None,
                !.at = "settled"]
       ELSE client' = [client EXCEPT
                !.uiError = <<>>, !.aiOutput = <<>>, !.streamedContent = <<>>,
                !.error = None, !.loading = TRUE, !.isStreaming = TRUE,
                !.at = "fetch"]
    /\ ClientUnchanged

\* useStreamingApi.ts lines 70-104: the fetch settles
startStreaming ==
    /\ op = "onAskOpenAI" /\ client.at = "fetch"
    /\ client' =
         CASE client.fetch = "rejects" -> Failed(client, <<"Failed to fetch">>)
           [] client.fetch = "not ok" -> Failed(client, <<"Request failed">>)
           [] client.fetch = "json" ->
                Settled(onComplete([client EXCEPT !.streamedContent = client.output],
                                   client.output))
           [] OTHER -> [client EXCEPT !.at = "read"]
    /\ ClientUnchanged

\* lines 136-185: one turn of the while loop, on a chunk of k units
processStreamingResponseRead ==
    /\ op = "onAskOpenAI" /\ client.at = "read"
    /\ \E k \in 1..Len(client.wire) :
         LET buffer == client.buffer \o SubSeq(client.wire, 1, k)
             split == SplitLines(buffer)
             st == ProcessLines(
                     [client EXCEPT !.wire = SubSeq(@, k + 1, Len(@)),
                                    !.buffer = split.rest],
                     split.lines)
         IN client' = IF st.returned THEN Settled(st) ELSE st
    /\ ClientUnchanged

\* lines 137-141: the body has ended; lines 186-188 and 115-117
processStreamingResponseDone ==
    /\ op = "onAskOpenAI" /\ client.at = "read"
    /\ client.wire = <<>>
    /\ client' = Settled(client)
    /\ ClientUnchanged

\* PromptPlayground.tsx lines 456-459 and 523-529, useStreamingApi.ts lines
\* 195-201 and 107-110: Escape, or the cancel button
onCancelRequest ==
    /\ op = "onAskOpenAI"
    /\ client.loading \/ client.isStreaming
    /\ client' = [client EXCEPT !.isStreaming = FALSE, !.loading = FALSE,
                                !.uiError = <<>>, !.cancelled = TRUE,
                                !.at = "settled"]
    /\ ClientUnchanged

-----------------------------------------------------------------------------
(* Initial states: one call, or one request, with its inputs chosen *)

Completions ==
    { [createFails |-> FALSE, chunks |-> <<<<"c1">>, <<>>, <<"c2">>>>, failAt |-> 0],
      [createFails |-> FALSE, chunks |-> <<>>, failAt |-> 0],
      [createFails |-> FALSE, chunks |-> <<<<"c1">>, <<"c2">>>>, failAt |-> 2],
      [createFails |-> TRUE, chunks |-> <<>>, failAt |-> 0] }

Requests ==
    [bodyOk : BOOLEAN, model : {"premium", "limited", "other"},
     session : BOOLEAN, cookie : {"none", "valid", "invalid"},
     apiKey : BOOLEAN, streaming : BOOLEAN, completion : Completions]

IdleRequest ==
    [bodyOk |-> TRUE, model |-> "limited", session |-> FALSE, cookie |-> "none",
     apiKey |-> TRUE, streaming |-> FALSE,
     completion |-> [createFails |-> FALSE, chunks |-> <<>>, failAt |-> 0]]

UsageKeys == {"anon", "u1", "u2"} \X {"free", "premium"}

BucketLimit(bucket) ==
    IF bucket = "premium" THEN PREMIUM_DAILY_TOKENS ELSE FREE_DAILY_TOKENS

\* the tokens still free in every bucket when the request arrives
Headrooms == {0, 514, PREMIUM_DAILY_TOKENS}

UsageWith(headroom) == [k \in UsageKeys |-> BucketLimit(k[2]) - headroom]

InitLocals ==
    [authed |-> FALSE, userId |-> "anon", tokens |-> 0, used |-> 0,
     next |-> 1, closed |-> FALSE]

RouteKinds == {"ENHANCE", "ANALYZE", "NOT_A_KIND"}

RouteParams ==
    { (USERINPUT :> StrV(<<"sort an array">>)) @@ (LANGUAGE :> StrV(<<"Python">>)),
      (USERINPUT :> StrV(<<"sort an array">>)) }

NoCall ==
    /\ calls = <<>> /\ warnings = <<>> /\ result = None /\ again = None

NoRequest ==
    /\ req = IdleRequest /\ locals = InitLocals /\ usage = UsageWith(0)
    /\ response = None /\ openaiCalls = 0 /\ events = <<>>

\* the page as loaded: nothing asked, nothing received
IdleClient ==
    [at |-> "idle", loading |-> FALSE, isStreaming |-> FALSE, error |-> None,
     uiError |-> <<>>, aiOutput |-> <<>>, streamedContent |-> <<>>,
     accumulatedContent |-> <<>>, buffer |-> <<>>, wire |-> <<>>,
     callbacks |-> <<>>, console |-> <<>>, returned |-> FALSE,
     cancelled |-> FALSE, premiumModel |-> FALSE, isAuthenticated |-> FALSE,
     fetch |-> "rejects", output |-> <<>>, stream |-> <<>>, body |-> <<>>]

NoCallers == quotaCalls = <<>> /\ usage0 = usage

NoClient == client = IdleClient

InitCreatePrompt ==
    /\ op = "createPrompt"
    /\ \/ template \in Templates /\ params \in PlainParams
       \/ template \in DiagTemplates /\ params \in DiagParams
    /\ kind = "ENHANCE" /\ custom = None /\ mcp = None
    /\ options = DefaultOptions

InitGet ==
    /\ op = "get"
    /\ kind \in RequestKinds /\ custom \in Customs
    /\ template = <<>> /\ params = <<>> /\ mcp = None
    /\ options = DefaultOptions

InitCreate ==
    /\ op = "create"
    /\ kind \in RequestKinds /\ custom \in Customs /\ params \in RequestParams
    /\ template = <<>> /\ mcp = None /\ options = DefaultOptions

InitCreateAdvancedPrompt ==
    /\ op = "createAdvancedPrompt"
    /\ \/ /\ template \in AdvancedTemplates /\ params \in RequestParams
          /\ options \in OptionSets /\ mcp \in Contexts
       \/ /\ template = PlainTemplate /\ params = <<>>
          /\ options \in {NoOptions, DefaultOptions}
          /\ \E m \in SectionContexts : mcp = Some(m)
    /\ kind = "ENHANCE" /\ custom = None

InitCreateMCPEnhancedPrompt ==
    /\ op = "createMCPEnhancedPrompt"
    /\ kind \in RequestKinds /\ custom \in Customs /\ params \in RequestParams
    /\ mcp \in Contexts
    /\ template = <<>> /\ options = DefaultOptions

InitEngine ==
    /\ pc = "ready"
    /\ \/ InitCreatePrompt
       \/ InitGet
       \/ InitCreate
       \/ InitCreateAdvancedPrompt
       \/ InitCreateMCPEnhancedPrompt
    /\ NoCall
    /\ NoRequest
    /\ NoCallers
    /\ NoClient

InitRoute ==
    /\ op = "POST" /\ pc = "r_body"
    /\ req \in Requests
    /\ kind \in RouteKinds /\ params \in RouteParams
    /\ \E h \in Headrooms : usage = UsageWith(h)
    /\ template = <<>> /\ custom = None /\ mcp = None
    /\ options = DefaultOptions
    /\ NoCall
    /\ locals = InitLocals /\ response = None /\ openaiCalls = 0
    /\ events = <<>>
    /\ NoCallers
    /\ NoClient

\* the arguments of one checkAndConsumeTokens call; the amounts are
\* estimates of route.ts line 55, above its allowance of 512
QuotaCalls ==
    [userId : {"anon", "u1"}, model : {"premium", "limited"},
     tokens : {600, 1000}, at : {"upsert"}, used : {0}, allowed : {FALSE}]

QuotaHeadrooms == {0, 700, 1700, PREMIUM_DAILY_TOKENS}

InitQuota ==
    /\ op = "checkAndConsumeTokens" /\ pc = "ready"
    /\ quotaCalls \in [Callers -> QuotaCalls]
    /\ \E h \in QuotaHeadrooms : usage = UsageWith(h)
    /\ usage0 = usage
    /\ kind = "ENHANCE" /\ params = <<>> /\ template = <<>>
    /\ custom = None /\ mcp = None /\ options = DefaultOptions
    /\ NoCall
    /\ req = IdleRequest /\ locals = InitLocals
    /\ response = None /\ openaiCalls = 0 /\ events = <<>>
    /\ NoClient

\* what the server sends back: the event sequences of the stream of
\* POST /api/generate, one of them cut by the connection
MetadataEvent == Ev("metadata", <<"prompt">>, <<>>)
ContentEvent(c) == Ev("content", <<c>>, <<>>)
CompleteEvent == Ev("complete", <<>>, <<>>)
ErrorEvent == Ev("error", <<>>, <<"Failed to generate response">>)

Streams ==
    { <<MetadataEvent, ContentEvent("c1"), ContentEvent("c2"), CompleteEvent>>,
      <<MetadataEvent, CompleteEvent>>,
      <<MetadataEvent, ContentEvent("c1"), ErrorEvent>>,
      <<MetadataEvent, ErrorEvent>>,
      <<MetadataEvent, ContentEvent("c1")>> }

\* the bytes of a body: whole, or cut in the middle of its last line
Bodies(evs) ==
    LET whole == EncodeAll(evs) IN {whole, SubSeq(whole, 1, Len(whole) - 3)}

Answers ==
    { [fetch |-> "rejects", output |-> <<>>, stream |-> <<>>, wire |-> <<>>],
      [fetch |-> "not ok", output |-> <<>>, stream |-> <<>>, wire |-> <<>>],
      [fetch |-> "json", output |-> <<"c1", "c2">>, stream |-> <<>>, wire |-> <<>>],
      [fetch |-> "json", output |-> <<>>, stream |-> <<>>, wire |-> <<>>] }
    \cup UNION { { [fetch |-> "stream", output |-> <<>>, stream |-> evs,
                     wire |-> w] : w \in Bodies(evs) } : evs \in Streams }

InitClient ==
    /\ op = "onAskOpenAI" /\ pc = "ready"
    /\ \E a \in Answers, premium \in BOOLEAN, authed \in BOOLEAN :
         client = [IdleClient EXCEPT
                     !.premiumModel = premium, !.isAuthenticated = authed,
                     !.fetch = a.fetch, !.output = a.output,
                     !.stream = a.stream, !.wire = a.wire, !.body = a.wire]
    /\ kind = "ENHANCE" /\ params = <<>> /\ template = <<>>
    /\ custom = None /\ mcp = None /\ options = DefaultOptions
    /\ NoCall
    /\ NoRequest
    /\ NoCallers

Init == InitEngine \/ InitRoute \/ InitQuota \/ InitClient

Next ==
    \/ CallCreatePrompt
    \/ CallGet
    \/ CallCreate
    \/ CallCreateAdvancedPrompt
    \/ CallCreateAdvancedPromptAgain
    \/ CallCreateMCPEnhancedPrompt
    \/ R_Body
    \/ R_Auth
    \/ R_Model
    \/ R_Create
    \/ R_Key
    \/ R_Quota
    \/ R_QuotaRevert
    \/ R_NonStream
    \/ R_StreamStart
    \/ S_Create
    \/ S_Chunk
    \/ S_Complete
    \/ \E c \in Callers : checkAndConsumeTokensUpsert(c)
    \/ \E c \in Callers : checkAndConsumeTokensRevert(c)
    \/ onAskOpenAI
    \/ startStreaming
    \/ processStreamingResponseRead
    \/ processStreamingResponseDone
    \/ onCancelRequest

Spec == Init /\ [][Next]_vars

\* The browser alone.  The fetch settles and the body is read to its end:
\* the network and the runtime's event loop see to that.  Nothing obliges
\* the user to cancel.
NextClient ==
    \/ onAskOpenAI
    \/ startStreaming
    \/ processStreamingResponseRead
    \/ processStreamingResponseDone
    \/ onCancelRequest

ClientSpec ==
    /\ InitClient
    /\ [][NextClient]_vars
    /\ WF_vars(startStreaming)
    /\ WF_vars(processStreamingResponseRead)
    /\ WF_vars(processStreamingResponseDone)

-----------------------------------------------------------------------------
(* Properties *)

Done == pc = "done"
Returned == Done /\ IsSome(result) /\ ~Get(result).threw

\* the replacer invocations of the call, as a set
Calls == {calls[i] : i \in 1..Len(calls)}

Absent(key) == key \notin DOMAIN params /\ key # DIAGTEXT

\* t[i..j] is a token ${...} and t holds no other "$"
OnlyTokenAt(t, i, j) ==
    /\ i + 2 <= j /\ j <= Len(t)
    /\ t[i] = DOLLAR /\ t[i + 1] = LBRACE /\ t[j] = RBRACE
    /\ \A m \in (i + 2)..(j - 1) : t[m] \notin {RBRACE, NL}
    /\ \A m \in (1..(i - 1)) \cup ((j + 1)..Len(t)) : t[m] # DOLLAR

\* t with the text of each invocation's token replaced by what the
\* invocation returned, everything else kept
RECURSIVE Splice(_, _, _)
Splice(t, i, cs) ==
    IF cs = <<>> THEN SubSeq(t, i, Len(t))
    ELSE LET c == Head(cs) IN
         SubSeq(t, i, c.at - 1) \o c.rep.s
         \o Splice(t, c.at + Len(c.key) + 3, Tail(cs))

\* C1: every matched token whose key is not an own key of the mapping (and
\* is not diagnosticText) is replaced by the empty string, without an
\* error; a template whose only token is such a ${k} comes out as the text
\* around the token, ${k} alone as the empty string.
C1_MissingKeyIsEmpty ==
    /\ \A c \in Calls : Absent(c.key) => c.rep = Ok(<<>>)
    /\ (op = "createPrompt" /\ Done) =>
          \A i, j \in 1..Len(template) :
              (OnlyTokenAt(template, i, j)
                 /\ Absent(SubSeq(template, i + 2, j - 1)))
              => Get(result) = Ok(SubSeq(template, 1, i - 1)
                                  \o SubSeq(template, j + 1, Len(template)))

\* a missing key's token amid other text has been replaced
C1_Witness ==
    /\ op = "createPrompt" /\ Returned
    /\ template = <<"a">> \o Tok(KEY_B)
    /\ KEY_B \notin DOMAIN params
    /\ Get(result).s = <<"a">>

\* C2: createPrompt is one left-to-right pass: the result is the template
\* with each token replaced by what its key resolved to, and a string value
\* is emitted verbatim, so a ${j} inside a value stays in the result whether
\* or not j is a key.
C2_SinglePass ==
    (op = "createPrompt" /\ Returned) =>
        /\ Get(result).s = Splice(template, 1, calls)
        /\ \A c \in Calls :
              (c.key \in DOMAIN params /\ c.key # DIAGTEXT
                 /\ params[c.key].t = "str")
              => c.rep = Ok(params[c.key].s)

\* a value holding ${b}, b a key of the mapping, came out verbatim
C2_Witness ==
    /\ op = "createPrompt" /\ Returned
    /\ template = Tok(KEY_A) \o Tok(KEY_B)
    /\ KEY_A \in DOMAIN params /\ params[KEY_A] = StrV(Tok(KEY_B))
    /\ KEY_B \in DOMAIN params
    /\ Get(result).s = Tok(KEY_B) \o <<"w">>

\* the template supportPrompt.get resolves for the call
ResolvedTemplate == supportPromptGet(custom, kind).s

\* the strings of the context payload that the blocks print
ContextStrings ==
    IF ~IsSome(mcp) THEN {}
    ELSE (IF IsSome(Get(mcp).reasoning)
             /\ TruthyStr(Get(Get(mcp).reasoning).thinking_process)
          THEN {Get(Get(Get(mcp).reasoning).thinking_process)} ELSE {})
         \cup
         (IF IsSome(Get(mcp).codeQuality)
          THEN {Get(Get(mcp).codeQuality).issues[i].message :
                    i \in 1..Len(Get(Get(mcp).codeQuality).issues)}
          ELSE {})

\* C3: the pipeline substitutes once, as its last step, so a parameter
\* value that the template uses, and a string of the context payload,
\* appear verbatim in the returned prompt even when they hold ${j} text.
C3_SubstitutedOnce ==
    (op = "createMCPEnhancedPrompt" /\ Returned) =>
        /\ \A k \in DOMAIN params :
              (params[k].t = "str" /\ Includes(ResolvedTemplate, Tok(k)))
              => Includes(Get(result).s, params[k].s)
        /\ \A cs \in ContextStrings : Includes(Get(result).s, cs)

\* the diagnostics of the mapping, when they are a sequence of records that
\* each have a message
DiagnosticsWellFormed ==
    DIAGNOSTICS \in DOMAIN params =>
        /\ params[DIAGNOSTICS].t = "arr"
        /\ \A i \in 1..Len(params[DIAGNOSTICS].a) :
              /\ params[DIAGNOSTICS].a[i].t = "obj"
              /\ IsSome(params[DIAGNOSTICS].a[i].message)

\* a record has a code: the field is there and is not the empty string
HasCode(d) == IsSome(d.code) /\ Get(d.code) # StrV(<<>>)

ClaimedDiagLine(d) ==
    <<"- [">>
    \o (IF Truthy(d.source) THEN ToStr(Get(d.source)) ELSE <<"Error">>)
    \o <<"] ">> \o ToStr(Get(d.message))
    \o (IF HasCode(d) THEN <<" (">> \o ToStr(Get(d.code)) \o <<")">> ELSE <<>>)

ClaimedDiagnosticText ==
    IF DIAGNOSTICS \notin DOMAIN params \/ params[DIAGNOSTICS].a = <<>>
    THEN <<>>
    ELSE LET a == params[DIAGNOSTICS].a IN
         <<NL, "Current problems detected:", NL>>
         \o JoinStr([i \in 1..Len(a) |-> ClaimedDiagLine(a[i])], <<NL>>)

\* C4: ${diagnosticText} is synthesized from params.diagnostics, never from
\* a diagnosticText key: empty when there are no diagnostics, else a line
\* break, "Current problems detected:", and one line per record in order,
\* `- [source or "Error"] message`, with ` (code)` exactly when the record
\* has a code.
C4_DiagnosticText ==
    DiagnosticsWellFormed =>
        \A c \in Calls : c.key = DIAGTEXT => c.rep = Ok(ClaimedDiagnosticText)

\* C5: the diagnostics key is never looked up by its own name: a
\* ${diagnostics} token emits nothing of the diagnostics value.
C5_DiagnosticsNotLookedUp ==
    DiagnosticsWellFormed =>
        \A c \in Calls : c.key = DIAGNOSTICS => c.rep = Ok(<<>>)

Without(p, k) == [x \in DOMAIN p \ {k} |-> p[x]]

IsStringSeq(v) == v.t = "arr" /\ \A i \in 1..Len(v.a) : v.a[i].t = "str"

ElementsJoined(v) == JoinStr([i \in 1..Len(v.a) |-> v.a[i].s], <<NL>>)

\* C6 as stated, on mappings whose diagnostics are well formed: a token
\* whose key is in the mapping emits a string value verbatim and a sequence
\* of strings joined by line breaks; a key that does not occur in the
\* template has no effect on the output.
C6_PresentKeyAsStated ==
    DiagnosticsWellFormed =>
        /\ \A c \in Calls :
              c.key \in DOMAIN params =>
                  /\ params[c.key].t = "str" => c.rep = Ok(params[c.key].s)
                  /\ IsStringSeq(params[c.key]) =>
                         c.rep = Ok(ElementsJoined(params[c.key]))
        /\ (op = "createPrompt" /\ Done) =>
              \A k \in DOMAIN params :
                  ~Includes(template, Tok(k))
                  => createPrompt(template, Without(params, k)) = Get(result)

\* C6 amended: as stated, for keys other than diagnosticText (whose token
\* is synthesized from the diagnostics), and with the diagnostics key
\* excepted from "no effect" when the template holds ${diagnosticText}.
C6_PresentKey ==
    /\ \A c \in Calls :
          (c.key \in DOMAIN params /\ c.key # DIAGTEXT) =>
              /\ params[c.key].t = "str" => c.rep = Ok(params[c.key].s)
              /\ IsStringSeq(params[c.key]) =>
                     c.rep = Ok(ElementsJoined(params[c.key]))
    /\ (op = "createPrompt" /\ Done) =>
          \A k \in DOMAIN params :
              (/\ ~Includes(template, Tok(k))
               /\ (k = DIAGNOSTICS => ~Includes(template, Tok(DIAGTEXT))))
              => createPrompt(template, Without(params, k)) = Get(result)

\* a two-element sequence came out joined by a line break, with a key of
\* the mapping that the template does not use
C6_Witness ==
    /\ op = "createPrompt" /\ Returned
    /\ template = Tok(KEY_A)
    /\ KEY_A \in DOMAIN params
    /\ params[KEY_A] = ArrV(<<StrV(<<"v">>), StrV(<<"w">>)>>)
    /\ KEY_B \in DOMAIN params
    /\ Get(result).s = <<"v", NL, "w">>

\* every value of the mapping is a string, or a sequence of strings and
\* records
ValuesInDomain ==
    \A k \in DOMAIN params :
        \/ params[k].t = "str"
        \/ /\ params[k].t = "arr"
           /\ \A i \in 1..Len(params[k].a) : params[k].a[i].t \in {"str", "obj"}

\* C7: createPrompt is total: for every template and every mapping whose
\* values are strings or sequences, the diagnostics value included, it
\* returns a string and does not throw.
C7_Total ==
    (op = "createPrompt" /\ Done /\ ValuesInDomain) => ~Get(result).threw

NonIdentifierUnits == {DOLLAR, LBRACE, RBRACE, NL, ".", " "}

IsIdentifier(key) ==
    key # <<>> /\ \A i \in 1..Len(key) : key[i] \notin NonIdentifierUnits

\* C8: only ${identifier} tokens, the identifier made of letters, digits
\* and underscores, are placeholders; ${...} text whose content is empty or
\* holds other characters passes through unchanged.
C8_OnlyIdentifiers ==
    /\ \A c \in Calls : IsIdentifier(c.key)
    /\ (op = "createPrompt" /\ Done
          /\ template \in {Tok(<<>>), Tok(KEY_DOTTED), Tok(KEY_SPACED)})
       => Get(result) = Ok(template)

HasCustom == IsSome(custom) /\ kind \in DOMAIN Get(custom)

\* C9: supportPrompt.get returns the custom entry for the kind verbatim
\* whenever there is one, the empty string included, and the built-in
\* template of the kind otherwise.
C9_OverridePrecedence ==
    (op = "get" /\ Done) =>
        /\ HasCustom => Get(result) = Ok(Get(custom)[kind])
        /\ (~HasCustom /\ kind \in Kinds) =>
               Get(result) = Ok(supportPromptConfigs[kind])

\* an empty custom template was returned in place of the built-in one
C9_Witness ==
    /\ op = "get" /\ Done
    /\ kind = "ENHANCE" /\ HasCustom /\ Get(custom)[kind] = <<>>
    /\ Get(result) = Ok(<<>>)

RejectedStatuses == {400, 403, 500}

\* C10: a kind in neither the custom mapping nor the registry is a hard
\* failure: create and the pipeline throw and return no prompt, and POST
\* /api/generate answers with an error status, having requested no
\* completion and emitted no event.
C10_UnknownKindFails ==
    /\ (op \in {"create", "createMCPEnhancedPrompt"} /\ Done
          /\ kind \notin Kinds /\ ~HasCustom)
       => Get(result).threw
    /\ (op = "POST" /\ kind \notin Kinds) =>
          /\ openaiCalls = 0 /\ events = <<>>
          /\ IsSome(result) => Get(result).threw
          /\ Done => (IsSome(response)
                        /\ Get(response).status \in RejectedStatuses)

\* a request for an unknown kind reached supportPrompt.create and was
\* answered 500
C10_Witness ==
    /\ op = "POST" /\ Done /\ kind = "NOT_A_KIND"
    /\ IsSome(result) /\ Get(result).threw
    /\ Get(response).status = 500

\* every value of the mapping is a string without "$": no token, no marker
PlainValues ==
    \A k \in DOMAIN params :
        params[k].t = "str" /\ ~Includes(params[k].s, <<DOLLAR>>)

\* C11: structural enhancement is idempotent: with the wrapper and the
\* footer enabled and no context payload, createAdvancedPrompt applied to
\* its own output (same params, plain values) returns that output again.
C11_EnhancementIdempotent ==
    (/\ op = "createAdvancedPrompt" /\ IsSome(again)
     /\ options.enhanceStructure /\ options.addErrorHandling
     /\ mcp = None /\ PlainValues)
    => Get(again) = Get(result)

\* the identifiers listed by the warnings of the call
Warned ==
    UNION { {warnings[j][i] : i \in 1..Len(warnings[j])} :
            j \in 1..Len(warnings) }

\* the placeholder identifiers of the resolved template, as a set
ResolvedKeys ==
    LET keys == MatchKeys(ResolvedTemplate, 1) IN
    {keys[i] : i \in 1..Len(keys)}

\* C12: in the pipeline, validation runs against the resolved template
\* before substitution: every placeholder identifier of that template that
\* is absent from params, diagnosticText excepted, is listed in a warning,
\* and the call still returns its prompt.
C12_ValidatesResolvedTemplate ==
    (/\ op = "createMCPEnhancedPrompt" /\ Done
     /\ ~supportPromptGet(custom, kind).threw)
    => /\ Returned
       /\ \A key \in ResolvedKeys :
             (key \notin DOMAIN params /\ key # DIAGTEXT) => key \in Warned

\* the opening delimiters of the four context blocks
ContextOpeners ==
    {"<code_quality_context>", "<security_context>",
     "<collaboration_context>", "<reasoning_context>"}

\* C13: the pipeline runs wrap, footer, context injection, substitution in
\* that order: in the returned prompt the error-handling footer comes
\* before every context block.
C13_FooterBeforeContext ==
    (op = "createMCPEnhancedPrompt" /\ Returned) =>
        LET s == Get(result).s IN
        \A i, j \in 1..Len(s) :
            (s[i] = "<error_handling>" /\ s[j] \in ContextOpeners) => i < j

\* the calls made on the plain template with a payload of sections
SectionCall ==
    op = "createAdvancedPrompt" /\ template = PlainTemplate /\ IsSome(mcp)

Positions(s, u) == {i \in 1..Len(s) : s[i] = u}

\* the delimiter pairs of the blocks, in the fixed section order
BlockDelimiters ==
    << <<"<code_quality_context>", "</code_quality_context>">>,
       <<"<security_context>", "</security_context>">>,
       <<"<collaboration_context>", "</collaboration_context>">>,
       <<"<reasoning_context>", "</reasoning_context>">> >>

HasIssues(m) == IsSome(m.codeQuality) /\ Get(m.codeQuality).issues # <<>>
HasVulnerabilities(m) ==
    IsSome(m.security) /\ Get(m.security).vulnerabilities # <<>>
HasActivity(m) ==
    /\ IsSome(m.github)
    /\ \E l \in {Get(m.github).notifications, Get(m.github).pullRequests,
                 Get(m.github).issues} : IsSome(l) /\ Get(l) # <<>>
HasThinking(m) ==
    /\ IsSome(m.reasoning)
    /\ IsSome(Get(m.reasoning).thinking_process)
    /\ Get(Get(m.reasoning).thinking_process) # <<>>

\* section n of the fixed order has data in the payload
SectionPresent(m, n) ==
    CASE n = 1 -> HasIssues(m)
      [] n = 2 -> HasVulnerabilities(m)
      [] n = 3 -> HasActivity(m)
      [] OTHER -> HasThinking(m)

\* the units of s that are in the set us, in the order they have in s
Only(s, us) == LET Keep(u) == u \in us IN SelectSeq(s, Keep)

IssueMessages(m) ==
    IF IsSome(m.codeQuality)
    THEN LET is == Get(m.codeQuality).issues IN
         [i \in 1..Len(is) |-> is[i].message[1]]
    ELSE <<>>

VulnerabilityDescriptions(m) ==
    IF IsSome(m.security)
    THEN LET vs == Get(m.security).vulnerabilities IN
         [i \in 1..Len(vs) |-> vs[i].description[1]]
    ELSE <<>>

Range(f) == {f[i] : i \in DOMAIN f}

\* C14: the blocks of the sections that have data are appended in the
\* order quality, security, collaboration, reasoning, each between its own
\* opening and closing delimiter, after the unchanged template text, and
\* the issues and vulnerabilities are listed in payload order, duplicates
\* kept.
C14_BlocksInFixedOrder ==
    (SectionCall /\ Returned) =>
        LET s == Get(result).s
            m == Get(mcp)
            Open(n) == Positions(s, BlockDelimiters[n][1])
            Close(n) == Positions(s, BlockDelimiters[n][2])
        IN  /\ \A n \in 1..4 :
                  SectionPresent(m, n) =>
                      /\ Cardinality(Open(n)) = 1 /\ Cardinality(Close(n)) = 1
                      /\ \A i \in Open(n), j \in Close(n) : i < j
            /\ \A n, k \in 1..4 :
                  (n < k /\ SectionPresent(m, n) /\ SectionPresent(m, k)) =>
                      \A j \in Close(n), i \in Open(k) : j < i
            /\ options = NoOptions =>
                  /\ SubSeq(s, 1, Len(template)) = template
                  /\ \A n \in 1..4 : \A i \in Open(n) : i > Len(template)
            /\ Only(s, Range(IssueMessages(m))) = IssueMessages(m)
            /\ Only(s, Range(VulnerabilityDescriptions(m)))
                  = VulnerabilityDescriptions(m)

\* all four blocks were appended to the template, with a repeated issue
C14_Witness ==
    /\ SectionCall /\ Returned /\ options = NoOptions
    /\ \A n \in 1..4 : SectionPresent(Get(mcp), n)
    /\ Get(Get(mcp).codeQuality).issues = <<Issue1, Issue1, Issue3>>
    /\ \A n \in 1..4 : Positions(Get(result).s, BlockDelimiters[n][1]) # {}

\* the calls that may append context blocks
ContextCall == op \in {"createAdvancedPrompt", "createMCPEnhancedPrompt"}

\* C15: a section whose data is absent or empty produces no block: the
\* opening delimiter of a section is in the output only if the payload has
\* issues, vulnerabilities, a non-empty collaboration list, or a
\* thinking-process string respectively; a payload whose sections are all
\* absent or empty leaves the template unchanged.
C15_NoBlockWithoutData ==
    (ContextCall /\ Returned) =>
        /\ \A n \in 1..4 :
              Positions(Get(result).s, BlockDelimiters[n][1]) # {}
              => (IsSome(mcp) /\ SectionPresent(Get(mcp), n))
        /\ (/\ SectionCall /\ options = NoOptions
            /\ \A n \in 1..4 : ~SectionPresent(Get(mcp), n))
           => Get(result).s = template

\* a payload with every section there but empty left the template as it was
C15_Witness ==
    /\ SectionCall /\ Returned /\ options = NoOptions
    /\ Get(mcp).codeQuality = Some([issues |-> <<>>, metrics |-> Some(Metrics1)])
    /\ Get(mcp).security = Some([vulnerabilities |-> <<>>])
    /\ Get(mcp).github = Github(Some(<<>>), Some(<<>>), Some(<<>>))
    /\ IsSome(Get(mcp).reasoning)
    /\ Get(Get(mcp).reasoning).thinking_process = Some(<<>>)
    /\ Get(result).s = PlainTemplate

\* the number of units of s equal to u
Count(s, u) == Cardinality(Positions(s, u))

\* C16: inside the quality block the metrics summary, heading included, is
\* emitted only when the payload has metrics, and every File: sub-line
\* belongs to an issue that has a file.
C16_MetricsOnlyWhenPresent ==
    (SectionCall /\ Returned) =>
        LET s == Get(result).s
            cq == Get(mcp).codeQuality
            withFile == IF IsSome(cq)
                        THEN {i \in 1..Len(Get(cq).issues) :
                                 IsSome(Get(cq).issues[i].file)}
                        ELSE {}
        IN  /\ \A u \in {"**Quality Metrics:**", "- Grade: "} :
                  Count(s, u) > 0 => (IsSome(cq) /\ IsSome(Get(cq).metrics))
            /\ Count(s, "  File: ") = Cardinality(withFile)

\* the units of s that come right after a unit u, in order
After(s, u) ==
    LET pairs == [i \in 1..(Len(s) - 1) |-> <<s[i], s[i + 1]>>]
        Follows(pr) == pr[1] = u
        kept == SelectSeq(pairs, Follows)
    IN  [i \in 1..Len(kept) |-> kept[i][2]]

\* the first n entries of an optional list, each by the unit that numbers it
FirstNumbers(o, n, Number(_)) ==
    IF ~IsSome(o) THEN <<>>
    ELSE LET a == Get(o) IN
         [i \in 1..(IF Len(a) < n THEN Len(a) ELSE n) |-> Number(a[i])]

\* C17: the collaboration block lists the first 5 notifications, the first
\* 3 pull requests and the first 3 issues at most, each list in payload
\* order, and a list that is empty or absent has no heading and no entry.
C17_CollaborationPreview ==
    (SectionCall /\ Returned /\ HasActivity(Get(mcp))) =>
        LET s == Get(result).s
            gh == Get(Get(mcp).github)
            Subject(e) == e.subject[2]
            Title(e) == e.title[2]
            Listed(o) == IsSome(o) /\ Get(o) # <<>>
        IN  /\ After(s, "subject ") = FirstNumbers(gh.notifications, 5, Subject)
            /\ After(s, "pull request ") = FirstNumbers(gh.pullRequests, 3, Title)
            /\ After(s, "issue ") = FirstNumbers(gh.issues, 3, Title)
            /\ Count(s, "**Recent Notifications:**")
                  = (IF Listed(gh.notifications) THEN 1 ELSE 0)
            /\ Count(s, "**Active Pull Requests:**")
                  = (IF Listed(gh.pullRequests) THEN 1 ELSE 0)
            /\ Count(s, "**Open Issues:**")
                  = (IF Listed(gh.issues) THEN 1 ELSE 0)

\* six notifications came out as the first five, with no heading for the
\* absent and the empty list
C17_Witness ==
    /\ SectionCall /\ Returned
    /\ Get(mcp).github = Github(Some(Notifications(6)), None, Some(<<>>))
    /\ After(Get(result).s, "subject ") = <<"6", "5", "4", "3", "2">>
    /\ Count(Get(result).s, "**Open Issues:**") = 0

\* C18: in the reasoning block the hypothesis, verification and confidence
\* lines are each emitted exactly when the payload has the field, a
\* confidence of 0 included, and a confidence of 0.8 reads 80%.
C18_ReasoningLines ==
    (SectionCall /\ Returned /\ HasThinking(Get(mcp))) =>
        LET s == Get(result).s
            r == Get(Get(mcp).reasoning)
            Line(o) == IF IsSome(o) THEN 1 ELSE 0
        IN  /\ Count(s, "Hypothesis: ") = Line(r.hypothesis)
            /\ Count(s, "Verification: ") = Line(r.verification)
            /\ Count(s, "Confidence: ") = Line(r.confidence_level)
            /\ r.confidence_level = Some(80)
                  => After(s, "Confidence: ") = <<"80">>

\* C19: context injection is idempotent on its own markers: when
\* createAdvancedPrompt is applied with the same payload to a prompt that
\* already holds a section's block, the block is not appended again.
C19_InjectionIdempotent ==
    (/\ op = "createAdvancedPrompt" /\ IsSome(again) /\ ~Get(again).threw
     /\ IsSome(mcp))
    => \A n \in 1..4 : Count(Get(again).s, BlockDelimiters[n][1]) <= 1

\* C20: for a built-in kind and params {userInput, language} with string
\* values, the prompt of supportPrompt.create and of the pipeline holds
\* both values as substrings, and no token is left in it when the values
\* hold none.
C20_ValuesInPrompt ==
    (/\ op \in {"create", "createMCPEnhancedPrompt"} /\ Returned
     /\ kind \in Kinds /\ ~HasCustom
     /\ DOMAIN params = {USERINPUT, LANGUAGE})
    => /\ Includes(Get(result).s, params[USERINPUT].s)
       /\ Includes(Get(result).s, params[LANGUAGE].s)
       /\ PlainValues => NextMatch(Get(result).s, 1) = 0

-----------------------------------------------------------------------------
(* POST /api/generate: order of the checks, quota and the completion *)

\* the request passed the model-tier check of lines 37-42
ModelAuthorized ==
    /\ isPremiumModel(req.model) => locals.authed
    /\ isPremiumModel(req.model) \/ isLimitedModel(req.model)

\* checkAndConsumeTokens has been called for the request and returned
\* allowed: true
QuotaAllowed == locals.tokens > 0 /\ locals.used <= Limit(req.model)

\* checkAndConsumeTokens has been called and found the counter over the limit
QuotaDenied == locals.tokens > 0 /\ locals.used > Limit(req.model)

Rejected(status) ==
    op = "POST" /\ IsSome(response) /\ Get(response).status = status

\* C21: in POST /api/generate supportPrompt.create is not called until the
\* model-tier authorization check and checkAndConsumeTokens have both
\* succeeded for the request.
C21_EngineAfterQuota ==
    (op = "POST" /\ IsSome(result)) => (ModelAuthorized /\ QuotaAllowed)

\* the 500 of lines 46-52: the body parsed, the prompt was built, no key
MissingKeyRejection ==
    /\ Rejected(500) /\ req.bodyOk /\ ~req.apiKey
    /\ IsSome(result) /\ ~Get(result).threw

\* C23: a request rejected with 403 (premium model, not authenticated), 400
\* (model neither premium nor limited) or 500 for a missing API key has
\* consumed no quota tokens and made no OpenAI call.
C23_RejectedConsumesNothing ==
    (Rejected(403) \/ Rejected(400) \/ MissingKeyRejection)
    => (usage = usage0 /\ openaiCalls = 0)

C23_Witness ==
    MissingKeyRejection /\ usage0 = UsageWith(514)

\* C24: a completion, streaming or not, is requested only after
\* checkAndConsumeTokens returned allowed: true for the request; when it
\* returned allowed: false the response is 429 and no completion is
\* requested.
C24_CompletionOnlyWhenAllowed ==
    op = "POST" =>
        /\ openaiCalls > 0 => QuotaAllowed
        /\ QuotaDenied => openaiCalls = 0
        /\ (QuotaDenied /\ Done) => Rejected(429)

C24_Witness ==
    Rejected(429) /\ QuotaDenied /\ openaiCalls = 0

\* the content fields of the content events of evs, in order
ContentsOf(evs) ==
    LET IsContent(e) == e.type = "content"
        sel == SelectSeq(evs, IsContent)
    IN [i \in 1..Len(sel) |-> sel[i].content]

\* the chunks the model has delivered so far that carry content
Delivered ==
    LET NonEmpty(c) == c # <<>> IN
    SelectSeq(SubSeq(req.completion.chunks, 1, locals.next - 1), NonEmpty)

Terminal(e) == e.type \in {"complete", "error"}

CompletionFails == req.completion.createFails \/ req.completion.failAt > 0

\* C27: the streaming response is a well-formed event sequence: exactly one
\* metadata event, first; then content events in the order the chunks
\* arrive from the model; then exactly one terminal event, complete on
\* success and error when the completion fails at any point; after it the
\* stream is closed and nothing further is emitted.
C27_StreamWellFormed ==
    (op = "POST" /\ events # <<>>) =>
        /\ events[1].type = "metadata"
        /\ \A i \in 2..Len(events) : events[i].type # "metadata"
        /\ ContentsOf(events) = Delivered
        /\ \A i \in 1..Len(events) :
              Terminal(events[i]) => (i = Len(events) /\ locals.closed /\ Done)
        /\ Done =>
              /\ locals.closed
              /\ events[Len(events)].type =
                    IF CompletionFails THEN "error" ELSE "complete"

C27_Witness ==
    /\ op = "POST" /\ Done /\ Len(events) = 4
    /\ events[4].type = "complete" /\ locals.closed

-----------------------------------------------------------------------------
(* checkAndConsumeTokens under concurrency *)

KeyOf(c) == UsageKey(quotaCalls[c].userId, quotaCalls[c].model)

CallReturned(c) == quotaCalls[c].at = "returned"

Allowed(c) == CallReturned(c) /\ quotaCalls[c].allowed

Denied(c) == CallReturned(c) /\ ~quotaCalls[c].allowed

RECURSIVE SumTokens(_)
SumTokens(S) ==
    IF S = {} THEN 0
    ELSE LET c == CHOOSE x \in S : TRUE IN
         quotaCalls[c].tokens + SumTokens(S \ {c})

\* the tokens granted for a key by the calls that returned allowed: true
Granted(key) == SumTokens({c \in Callers : KeyOf(c) = key /\ Allowed(c)})

\* the tokens of the calls whose increment of a key stands: granted, or
\* made and still to be reverted
Applied(key) ==
    SumTokens({c \in Callers :
                 KeyOf(c) = key /\ (Allowed(c) \/ quotaCalls[c].at = "revert")})

\* C22: for each (user, bucket, day) key and under every interleaving of
\* concurrent checkAndConsumeTokens calls, the tokens of the calls that
\* returned allowed: true, added to what the key had used before them,
\* never exceed the bucket's daily limit.
C22_GrantedWithinLimit ==
    op = "checkAndConsumeTokens" =>
        \A key \in UsageKeys :
            usage0[key] + Granted(key) <= BucketLimit(key[2])

C22_Witness ==
    /\ op = "checkAndConsumeTokens"
    /\ \E c, d \in Callers :
          /\ c # d /\ KeyOf(c) = KeyOf(d) /\ Allowed(c) /\ Denied(d)
          /\ usage0[KeyOf(c)] + quotaCalls[c].tokens
                <= BucketLimit(KeyOf(c)[2])

\* C25: a call that returns allowed: false leaves nothing of its increment
\* in the counter of its key once it has completed, and no call changes the
\* counter of another key: every counter is its value before the calls plus
\* the increments of the calls on that key that were granted or are still
\* to be reverted.
C25_DeniedLeavesCounter ==
    op = "checkAndConsumeTokens" =>
        \A key \in UsageKeys : usage[key] = usage0[key] + Applied(key)

C25_Witness ==
    /\ op = "checkAndConsumeTokens"
    /\ \E c, d \in Callers :
          /\ Denied(c) /\ Allowed(d) /\ KeyOf(c) # KeyOf(d)
          /\ usage[KeyOf(c)] = usage0[KeyOf(c)]

-----------------------------------------------------------------------------
(* The browser: what the hook makes of the stream *)

\* the request was answered by a stream and the user did not cancel it
Streamed ==
    op = "onAskOpenAI" /\ client.fetch = "stream" /\ ~client.cancelled

\* the arguments of the calls of one callback, in order
CallsOf(name) ==
    LET Is(cb) == cb.name = name
        sel == SelectSeq(client.callbacks, Is)
    IN [i \in 1..Len(sel) |-> sel[i].arg]

\* the number of events whose line the hook has taken from its buffer: an
\* event is six units, and its line ends with the fifth
Processed ==
    (Len(client.body) - Len(client.wire) - Len(client.buffer) + 1) \div 6

ProcessedEvents == SubSeq(client.stream, 1, Processed)

ProcessedTypes == {ProcessedEvents[i].type : i \in 1..Len(ProcessedEvents)}

\* C28: when the stream delivers an event of type 'error', the hook stops
\* processing, sets its error state to the event's message and invokes
\* onError with it; it reports nothing of the stream as completion.
C28_ErrorEventStops ==
    (Streamed /\ "error" \in ProcessedTypes) =>
        /\ client.error = Some(ErrorEvent.error)
        /\ CallsOf("onError") = <<ErrorEvent.error>>
        /\ CallsOf("onComplete") = <<>>
        /\ client.at = "settled"

\* C29: for every way the body is split into read chunks, also in the
\* middle of a data line, the accumulated content is the concatenation, in
\* order, of the content fields of the content events processed so far, and
\* onComplete is invoked exactly once, with that value, when the complete
\* event is processed.
C29_AccumulatedContent ==
    Streamed =>
        LET expected == Flatten(ContentsOf(ProcessedEvents)) IN
        /\ client.accumulatedContent = expected
        /\ client.streamedContent = expected
        /\ CallsOf("onContent") = ContentsOf(ProcessedEvents)
        /\ CallsOf("onComplete") =
              IF "complete" \in ProcessedTypes THEN <<expected>> ELSE <<>>

C29_Witness ==
    /\ Streamed /\ client.at = "settled"
    /\ CallsOf("onComplete") = << <<"c1", "c2">> >>
    /\ client.accumulatedContent = <<"c1", "c2">>

\* the UI is idle: a further request can be started (onAskOpenAI line 480)
Idle == ~client.isStreaming /\ ~client.loading

\* C30: every request started by onAskOpenAI eventually returns the UI to
\* idle, whatever the outcome: isStreaming becomes false and the loading
\* flag is set back to false.
C30_ReturnsToIdle ==
    (op = "onAskOpenAI" /\ client.loading) ~> Idle

=============================================================================
